---- MODULE Spec2Model ----
(***************************************************************************)
(* A model of the map-poster service (src/main.py): the POST /render       *)
(* handler, the functions it calls, and the three collaborators it talks   *)
(* to (the process environment, the Static Maps provider, the bucket).     *)
(*                                                                         *)
(* Text is a sequence of one-character strings, so that the regular        *)
(* expressions, strip() and upper() work on characters.  A Python float    *)
(* is a fixed-point integer in units of 10^-FracDigits: the decimal        *)
(* literals drawn here have at most FracDigits fraction digits, and on     *)
(* those float() is exact up to equality and int() truncation.             *)
(*                                                                         *)
(* render() is modelled statement by statement, one action per call that   *)
(* can raise or that talks to a collaborator.  The title and subtitle of   *)
(* the payload only reach the drawing code and are left out; the image     *)
(* bytes are tokens ("png", "garbage", "poster", "pdf").                   *)
(***************************************************************************)
EXTENDS Integers, Sequences, FiniteSets

VARIABLES
    env,            \* os.environ of the process
    pc,             \* position of the render() handler
    payload,        \* the JSON object of the request
    output,         \* render: output (normalised)
    lat, lng,       \* render: lat, lng
    zoom_from_link, \* render: zoom_from_link
    zoom,           \* render: zoom
    map_png,        \* render: map_png
    poster_png,     \* render: poster_png
    fetches,        \* the calls this request made to the map provider
    upstream,       \* what the provider answered to the last call
    uploads,        \* the blob uploads this request made
    storage,        \* the objects of the bucket
    storage0,       \* the objects of the bucket when the request arrived
    raised,         \* the exception that left the view function
    response,       \* the HTTP response of the request
    nreq            \* requests received so far

vars == <<env, pc, payload, output, lat, lng, zoom_from_link, zoom, map_png,
          poster_png, fetches, upstream, uploads, storage, storage0, raised,
          response, nreq>>

----------------------------------------------------------------------------
(* Bounds *)

\* Fraction digits a float keeps (the unit is 10^-FracDigits).
FracDigits == 2

\* Requests one behaviour receives.
MaxRequests == 2

----------------------------------------------------------------------------
(* Python values: None, int, str, and a key absent from a dict *)

PyNone == [t |-> "none", n |-> 0, s |-> <<>>]

Absent == [t |-> "absent", n |-> 0, s |-> <<>>]

PyInt(k) == [t |-> "int", n |-> k, s |-> <<>>]

PyStr(cs) == [t |-> "str", n |-> 0, s |-> cs]

\* dict.get(key, default)
Get(v, default) == IF v.t = "absent" THEN default ELSE v

\* bool(v)
Truthy(v) ==
    CASE v.t = "int" -> v.n # 0
      [] v.t = "str" -> v.s # <<>>
      [] OTHER -> FALSE

\* a or b
PyOr(a, b) == IF Truthy(a) THEN a ELSE b

----------------------------------------------------------------------------
(* Characters *)

DigitChars == <<"0", "1", "2", "3", "4", "5", "6", "7", "8", "9">>

IsDigit(c) == \E k \in 1..10 : DigitChars[k] = c

DigitVal(c) == (CHOOSE k \in 1..10 : DigitChars[k] = c) - 1

IsSpace(c) == c \in {" ", "\t", "\n"}

LowerChars == <<"a", "b", "c", "d", "e", "f", "g", "h", "i", "j", "k", "l", "m",
                "n", "o", "p", "q", "r", "s", "t", "u", "v", "w", "x", "y", "z">>

UpperChars == <<"A", "B", "C", "D", "E", "F", "G", "H", "I", "J", "K", "L", "M",
                "N", "O", "P", "Q", "R", "S", "T", "U", "V", "W", "X", "Y", "Z">>

UpperChar(c) ==
    IF \E k \in 1..26 : LowerChars[k] = c
    THEN UpperChars[CHOOSE k \in 1..26 : LowerChars[k] = c]
    ELSE c

LowerChar(c) ==
    IF \E k \in 1..26 : UpperChars[k] = c
    THEN LowerChars[CHOOSE k \in 1..26 : UpperChars[k] = c]
    ELSE c

\* str.upper()
Upper(s) == [i \in 1..Len(s) |-> UpperChar(s[i])]

\* str.lower()
Lower(s) == [i \in 1..Len(s) |-> LowerChar(s[i])]

RECURSIVE LStrip(_)
LStrip(s) == IF s # <<>> /\ IsSpace(Head(s)) THEN LStrip(Tail(s)) ELSE s

RECURSIVE RStrip(_)
RStrip(s) ==
    IF s # <<>> /\ IsSpace(s[Len(s)]) THEN RStrip(SubSeq(s, 1, Len(s) - 1)) ELSE s

\* str.strip()
Strip(s) == RStrip(LStrip(s))

RECURSIVE StripChar(_, _)
\* str.strip(c) for one character c
StripChar(s, c) ==
    IF s # <<>> /\ Head(s) = c THEN StripChar(Tail(s), c)
    ELSE IF s # <<>> /\ s[Len(s)] = c THEN StripChar(SubSeq(s, 1, Len(s) - 1), c)
    ELSE s

----------------------------------------------------------------------------
(* float() and int() *)

RECURSIVE Pow10(_)
Pow10(k) == IF k = 0 THEN 1 ELSE 10 * Pow10(k - 1)

Scale == Pow10(FracDigits)

RECURSIVE DigitsVal(_, _, _)
\* The number the digits s[i..j-1] spell.
DigitsVal(s, i, j) ==
    IF j <= i THEN 0 ELSE 10 * DigitsVal(s, i, j - 1) + DigitVal(s[j - 1])

RECURSIVE SkipDigits(_, _)
\* \d* from position i: the first position that is past the run of digits.
SkipDigits(s, i) ==
    IF i <= Len(s) /\ IsDigit(s[i]) THEN SkipDigits(s, i + 1) ELSE i

RECURSIVE SkipSpaces(_, _)
\* \s* from position i.
SkipSpaces(s, i) ==
    IF i <= Len(s) /\ IsSpace(s[i]) THEN SkipSpaces(s, i + 1) ELSE i

\* float(s[i..j-1]) of a text -?\d+(\.\d+)? the pattern matched, in units of
\* 10^-FracDigits; fraction digits past FracDigits are not drawn.
PyFloat(s, i, j) ==
    LET neg  == s[i] = "-"
        b    == IF neg THEN i + 1 ELSE i
        e    == SkipDigits(s, b)
        frac == IF e < j THEN DigitsVal(s, e + 1, j) * Pow10(FracDigits - (j - e - 1))
                ELSE 0
        mag  == DigitsVal(s, b, e) * Scale + frac
    IN  IF neg THEN 0 - mag ELSE mag

\* A slip for PyIntOfFloat: the float is rounded to the nearest integer.
PyRoundOfFloat(x) ==
    IF x >= 0 THEN (2 * x + Scale) \div (2 * Scale)
    ELSE 0 - ((2 * (0 - x) + Scale) \div (2 * Scale))

\* int(x) of a float x: truncation toward zero.
PyIntOfFloat(x) == IF x >= 0 THEN x \div Scale ELSE 0 - ((0 - x) \div Scale)

----------------------------------------------------------------------------
(* The two regular expressions of parse_google_maps_link *)

\* The character at position k, "" past the end of the text.
CharAt(s, k) == IF k \in 1..Len(s) THEN s[k] ELSE ""

NoMatch == [ok |-> FALSE, g1 |-> <<0, 0>>, g2 |-> <<0, 0>>, g3 |-> <<0, 0>>]

\* -?\d+(?:\.\d+)? (the sign only when signed) from position i: the position
\* past the match, 0 when there is none.  Each quantifier is greedy; what
\* follows a number in either pattern is no digit and no ".", so that giving
\* characters back never turns a failure into a match.
MatchNumber(s, i, signed) ==
    LET b == IF signed /\ CharAt(s, i) = "-" THEN i + 1 ELSE i
        e == SkipDigits(s, b)
        f == SkipDigits(s, e + 1)
    IN  IF e = b THEN 0
        ELSE IF CharAt(s, e) = "." /\ f > e + 1 THEN f
        ELSE e

\* /@(-?\d+(?:\.\d+)?),\s*(-?\d+(?:\.\d+)?),\s*(\d+(?:\.\d+)?)z matched from
\* position i; the groups as <<first, past the last>>.
PrimaryAt(s, i) ==
    LET a  == i + 2
        ae == MatchNumber(s, a, TRUE)
        b  == SkipSpaces(s, ae + 1)
        be == MatchNumber(s, b, TRUE)
        c  == SkipSpaces(s, be + 1)
        ce == MatchNumber(s, c, FALSE)
    IN  IF /\ CharAt(s, i) = "/"
           /\ CharAt(s, i + 1) = "@"
           /\ ae # 0
           /\ CharAt(s, ae) = ","
           /\ be # 0
           /\ CharAt(s, be) = ","
           /\ ce # 0
           /\ CharAt(s, ce) = "z"
        THEN [ok |-> TRUE, g1 |-> <<a, ae>>, g2 |-> <<b, be>>, g3 |-> <<c, ce>>]
        ELSE NoMatch

\* [?&](?:q|ll)=(-?\d+(?:\.\d+)?),(-?\d+(?:\.\d+)?) matched from position i.
FallbackAt(s, i) ==
    LET k  == IF CharAt(s, i + 1) = "q" THEN i + 2
              ELSE IF CharAt(s, i + 1) = "l" /\ CharAt(s, i + 2) = "l" THEN i + 3
              ELSE 0
        a  == k + 1
        ae == MatchNumber(s, a, TRUE)
        b  == ae + 1
        be == MatchNumber(s, b, TRUE)
    IN  IF /\ CharAt(s, i) \in {"?", "&"}
           /\ k # 0
           /\ CharAt(s, k) = "="
           /\ ae # 0
           /\ CharAt(s, ae) = ","
           /\ be # 0
        THEN [ok |-> TRUE, g1 |-> <<a, ae>>, g2 |-> <<b, be>>, g3 |-> <<0, 0>>]
        ELSE NoMatch

\* The least element of a non-empty set of positions.
First(S) == CHOOSE i \in S : \A j \in S : i <= j

\* re.search with the primary pattern: the match of the leftmost start.
SearchPrimary(s) ==
    LET starts == {i \in 1..Len(s) : PrimaryAt(s, i).ok}
    IN  IF starts = {} THEN NoMatch ELSE PrimaryAt(s, First(starts))

\* re.search with the fallback pattern.
SearchFallback(s) ==
    LET starts == {i \in 1..Len(s) : FallbackAt(s, i).ok}
    IN  IF starts = {} THEN NoMatch ELSE FallbackAt(s, First(starts))

----------------------------------------------------------------------------
(* parse_google_maps_link *)

Raise(e, msg) ==
    [exc |-> e, msg |-> msg, lat |-> 0, lng |-> 0, zoom |-> PyNone]

Return(la, ln, z) ==
    [exc |-> "", msg |-> "", lat |-> la, lng |-> ln, zoom |-> z]

MsgRequired == "maps_link is required and must be a string"

MsgFormat ==
    "Could not parse lat/lng/zoom from maps_link. Expected /@lat,lng,zoomz format."

\* A slip for parse_patterns: the q=/ll= pattern is tried first.
parse_patterns_query_first(s) ==
    LET m == SearchPrimary(s)
        q == SearchFallback(s)
    IN  IF q.ok
        THEN Return(PyFloat(s, q.g1[1], q.g1[2]),
                    PyFloat(s, q.g2[1], q.g2[2]),
                    PyNone)
        ELSE IF m.ok
        THEN Return(PyFloat(s, m.g1[1], m.g1[2]),
                    PyFloat(s, m.g2[1], m.g2[2]),
                    PyInt(PyIntOfFloat(PyFloat(s, m.g3[1], m.g3[2]))))
        ELSE Raise("ValueError", MsgFormat)

\* What the function returns or raises once maps_link is known to be a
\* non-empty str: the primary pattern first, the fallback only after it.
parse_patterns(s) ==
    LET m == SearchPrimary(s)
        q == SearchFallback(s)
    IN  IF m.ok
        THEN Return(PyFloat(s, m.g1[1], m.g1[2]),
                    PyFloat(s, m.g2[1], m.g2[2]),
                    PyInt(PyIntOfFloat(PyFloat(s, m.g3[1], m.g3[2]))))
        ELSE IF q.ok
        THEN Return(PyFloat(s, q.g1[1], q.g1[2]),
                    PyFloat(s, q.g2[1], q.g2[2]),
                    PyNone)
        ELSE Raise("ValueError", MsgFormat)

parse_google_maps_link(maps_link) ==
    IF ~Truthy(maps_link) \/ maps_link.t # "str"
    THEN Raise("ValueError", MsgRequired)
    ELSE parse_patterns(maps_link.s)

----------------------------------------------------------------------------
(* Configuration read from the environment *)

Txt_true == <<"t", "r", "u", "e">>

TrueWords == {<<"1">>, Txt_true, <<"y", "e", "s">>, <<"y">>, <<"o", "n">>}

\* getenv_bool(name, default), v the value of os.getenv(name)
getenv_bool(v, default) ==
    IF v = PyNone THEN default ELSE Lower(Strip(v.s)) \in TrueWords

\* get_gmaps_key(): the key, or "" when the function raises RuntimeError.
get_gmaps_key(e) ==
    LET key == PyOr(e.GMAPS_API_KEY, e.MAPS_API_KEY)
    IN  IF ~Truthy(key) THEN <<>> ELSE key.s

Txt_k == <<"k">>

Txt_bkt == <<"b", "k", "t">>

Txt_posters == <<"/", "p", "o", "s", "t", "/">>

BaseEnv ==
    [GMAPS_API_KEY |-> PyStr(Txt_k), MAPS_API_KEY |-> PyNone,
     OUTPUT_BUCKET |-> PyStr(Txt_bkt), GCS_PREFIX |-> PyNone, SIGN_URLS |-> PyNone]

\* The deployments drawn: the complete one, the key under its older name, no
\* key, no bucket, a prefix, signed URLs, SIGN_URLS set to a word that is not
\* a true word.
Envs ==
    { BaseEnv,
      [BaseEnv EXCEPT !.GMAPS_API_KEY = PyStr(<<>>), !.MAPS_API_KEY = PyStr(Txt_k)],
      [BaseEnv EXCEPT !.GMAPS_API_KEY = PyNone],
      [BaseEnv EXCEPT !.OUTPUT_BUCKET = PyNone],
      [BaseEnv EXCEPT !.GCS_PREFIX = PyStr(Txt_posters)],
      [BaseEnv EXCEPT !.SIGN_URLS = PyStr(<<" ", "T", "r", "u", "e">>)],
      [BaseEnv EXCEPT !.SIGN_URLS = PyStr(<<"n", "o">>)] }

----------------------------------------------------------------------------
(* int(zoom_in) and the choice of the zoom *)

\* int(v) of a JSON int or str: [exc, n].  A str is stripped, may carry one
\* sign, and must then be digits only.
PyIntOf(v) ==
    LET s == Strip(v.s)
        b == IF CharAt(s, 1) \in {"+", "-"} THEN 2 ELSE 1
        e == SkipDigits(s, b)
        m == DigitsVal(s, b, e)
    IN  IF v.t = "int" THEN [exc |-> "", n |-> v.n]
        ELSE IF v.t = "str" /\ e > b /\ e = Len(s) + 1
        THEN [exc |-> "", n |-> IF CharAt(s, 1) = "-" THEN 0 - m ELSE m]
        ELSE [exc |-> IF v.t = "str" THEN "ValueError" ELSE "TypeError", n |-> 0]

\* The zoom when nothing gives one.
DefaultZoom == 16

\* A slip for resolve_zoom: "if zoom_in" in place of "if zoom_in is not
\* None", so that a zoom of 0 counts as none.
resolve_zoom_truthy(zoom_in, from_link) ==
    IF Truthy(zoom_in) THEN PyIntOf(zoom_in)
    ELSE IF from_link # PyNone THEN [exc |-> "", n |-> from_link.n]
    ELSE [exc |-> "", n |-> DefaultZoom]

\* int(zoom_in) if zoom_in is not None
\*     else (zoom_from_link if zoom_from_link is not None else 16)
resolve_zoom(zoom_in, from_link) ==
    IF zoom_in # PyNone THEN PyIntOf(zoom_in)
    ELSE IF from_link # PyNone THEN [exc |-> "", n |-> from_link.n]
    ELSE [exc |-> "", n |-> DefaultZoom]

----------------------------------------------------------------------------
(* The map provider *)

\* What the provider may answer: an image, a body that is no image, a
\* refusal, a server error, or nothing within the timeout (status 0).
ProviderAnswers ==
    { [status |-> 200, content |-> "png"],
      [status |-> 200, content |-> "garbage"],
      [status |-> 403, content |-> "denied"],
      [status |-> 500, content |-> "error"],
      [status |-> 0, content |-> ""] }

NoAnswer == [status |-> -1, content |-> ""]

Min2(a, b) == IF a <= b THEN a ELSE b

Max2(a, b) == IF a >= b THEN a ELSE b

\* The exception requests.get(...) and r.raise_for_status() end with.
fetch_exception(ans) ==
    IF ans.status = 0 THEN "Timeout"
    ELSE IF ans.status \in 400..599 THEN "HTTPError"
    ELSE ""

\* The query parameters of the call (size_px = (1200, 1200), scale = 2).
fetch_params(la, ln, z, key) ==
    LET req_w == Min2(640, Max2(1, 1200 \div 2))
    IN  [center |-> <<la, ln>>, zoom |-> z, size |-> <<req_w, req_w>>,
         scale |-> 2, maptype |-> "roadmap", format |-> "png", key |-> key]

----------------------------------------------------------------------------
(* The bucket *)

Txt_png == <<".", "p", "n", "g">>

Txt_pdf == <<".", "p", "d", "f">>

\* uuid.uuid4().hex, two of them.
Uuids == {<<"a", "1">>, <<"b", "2">>}

\* The object name upload_to_gcs stores under.
object_name_of(e, name) ==
    LET prefix == StripChar(Strip(PyOr(e.GCS_PREFIX, PyStr(<<>>)).s), "/")
    IN  IF prefix # <<>> THEN prefix \o <<"/">> \o name ELSE name

\* blob.upload_from_string: the object replaces one of the same name.
stored(objects, obj) == {o \in objects : o.name # obj.name} \cup {obj}

NoUrl == [kind |-> "none", bucket |-> <<>>, name |-> <<>>]

\* The URL upload_to_gcs returns.
url_of(e, object_name) ==
    [kind |-> IF getenv_bool(e.SIGN_URLS, FALSE) THEN "signed" ELSE "gs",
     bucket |-> e.OUTPUT_BUCKET.s, name |-> object_name]

----------------------------------------------------------------------------
(* Responses *)

NoResponse ==
    [status |-> 0, json |-> FALSE, keys |-> {}, ok |-> FALSE, error |-> "",
     output |-> <<>>, url |-> NoUrl]

\* The response to an exception that leaves the view function.
InternalServerError == [NoResponse EXCEPT !.status = 500]

MsgOutput == "Invalid output. Use PNG or PDF."

\* jsonify({"ok": True, "output": ..., "url": url})
OkResponse(out, url) ==
    [status |-> 200, json |-> TRUE, keys |-> {"ok", "output", "url"}, ok |-> TRUE,
     error |-> "", output |-> out, url |-> url]

\* jsonify({"ok": False, "error": msg}), 400
ErrorResponse(msg) ==
    [status |-> 400, json |-> TRUE, keys |-> {"ok", "error"}, ok |-> FALSE,
     error |-> msg, output |-> <<>>, url |-> NoUrl]

----------------------------------------------------------------------------
(* The requests drawn *)

\* A decimal literal: its text, the number num/den it spells, and the
\* integer part of that number.
Dec(text, num, den, int) == [text |-> text, num |-> num, den |-> den, int |-> int]

NoDec == Dec(<<>>, 0, 1, 0)

Lat_54_7 == Dec(<<"5", "4", ".", "7">>, 547, 10, 54)

Lat_m1 == Dec(<<"-", "1">>, -1, 1, -1)

Lat_0_05 == Dec(<<"0", ".", "0", "5">>, 5, 100, 0)

Lats == {Lat_54_7, Lat_m1, Lat_0_05}

Lng_25_39 == Dec(<<"2", "5", ".", "3", "9">>, 2539, 100, 25)

Lng_m0_5 == Dec(<<"-", "0", ".", "5">>, -5, 10, 0)

Lngs == {Lng_25_39, Lng_m0_5}

Zoom_16 == Dec(<<"1", "6">>, 16, 1, 16)

Zoom_16_75 == Dec(<<"1", "6", ".", "7", "5">>, 1675, 100, 16)

Zoom_0 == Dec(<<"0">>, 0, 1, 0)

Zoom_999 == Dec(<<"9", "9", "9">>, 999, 1, 999)

ZoomLits == {Zoom_16, Zoom_16_75, Zoom_0, Zoom_999}

Seps == {<<",">>, <<",", " ">>}

\* A part of a link: its text, whether it has the shape its pattern asks
\* for, and the literals it was written from.
Part(text, good, la, ln, z) ==
    [text |-> text, good |-> good, lat |-> la, lng |-> ln, zoom |-> z]

NoPart == Part(<<>>, FALSE, NoDec, NoDec, NoDec)

Bad(text) == Part(text, FALSE, NoDec, NoDec, NoDec)

\* /@<lat>,<lng>,<zoom>z
AtPart(la, ln, z, sep) ==
    Part(<<"/", "@">> \o la.text \o sep \o ln.text \o sep \o z.text \o <<"z">>,
         TRUE, la, ln, z)

AtParts ==
    {AtPart(la, ln, z, sep) : la \in Lats, ln \in Lngs, z \in ZoomLits, sep \in Seps}

\* Segments the primary pattern must not match: no zoom, no z, no slash, a
\* plus sign, no integer digits, a zoom with a sign.
BadAtParts ==
    { Bad(<<"/", "@", "5", "4", ".", "7", ",", "2", "5">>),
      Bad(<<"/", "@", "5", "4", ".", "7", ",", "2", "5", ",", "1", "6">>),
      Bad(<<"@", "5", "4", ".", "7", ",", "2", "5", ",", "1", "6", "z">>),
      Bad(<<"/", "@", "+", "5", "4", ",", "2", "5", ",", "1", "6", "z">>),
      Bad(<<"/", "@", ".", "7", ",", "2", "5", ",", "1", "6", "z">>),
      Bad(<<"/", "@", "5", "4", ",", "2", "5", ",", "-", "1", "z">>) }

QLat_1_0 == Dec(<<"1", ".", "0">>, 10, 10, 1)

QLat_m3 == Dec(<<"-", "3">>, -3, 1, -3)

QLats == {QLat_1_0, QLat_m3}

QLng_2_0 == Dec(<<"2", ".", "0">>, 20, 10, 2)

QLng_4_5 == Dec(<<"4", ".", "5">>, 45, 10, 4)

QLngs == {QLng_2_0, QLng_4_5}

Txt_q == <<"?", "q", "=">>

Txt_ll == <<"&", "l", "l", "=">>

QMarks == {Txt_q, Txt_ll}

\* ?q=<lat>,<lng> and &ll=<lat>,<lng>
QueryPart(m, la, ln) == Part(m \o la.text \o <<",">> \o ln.text, TRUE, la, ln, NoDec)

QueryParts == {QueryPart(m, la, ln) : m \in QMarks, la \in QLats, ln \in QLngs}

\* Queries the fallback pattern must not match: another parameter, no ? or
\* &, a space after the comma, no number.
BadQueryParts ==
    { Bad(<<"?", "x", "=", "1", ",", "2">>),
      Bad(<<"q", "=", "1", ",", "2">>),
      Bad(<<"?", "q", "=", "1", ",", " ", "2">>),
      Bad(<<"?", "l", "=", "1", ",", "2">>) }

Txt_maps == <<"m", "a", "p", "s">>

\* What precedes the parts: nothing, a path, the start of a /@ segment that
\* breaks off.
Heads == {<<>>, Txt_maps, <<"/", "@", "7", ",">>}

\* A link: a head, a /@ segment or none, a query or none.
Link(h, a, q) == [text |-> h \o a.text \o q.text, at |-> a, query |-> q]

At_16 == AtPart(Lat_54_7, Lng_25_39, Zoom_16, <<",">>)

At_999 == AtPart(Lat_m1, Lng_m0_5, Zoom_999, <<",">>)

At_0 == AtPart(Lat_0_05, Lng_25_39, Zoom_0, <<",", " ">>)

Query_1_2 == QueryPart(Txt_q, QLat_1_0, QLng_2_0)

\* Every /@ segment without a query, and every query after some of the
\* segments, after each malformed segment and after none.
AllLinks ==
    { Link(h, a, NoPart) : h \in Heads, a \in AtParts }
    \cup { Link(h, a, q) : h \in Heads,
                           a \in {At_16, At_0} \cup BadAtParts \cup {NoPart},
                           q \in QueryParts \cup BadQueryParts \cup {NoPart} }

\* The links of AllLinks with a well-formed /@ segment.
AtLinks == {l \in AllLinks : l.at.good}


\* The values of maps_link the full handler is run on.
SomeLinkValues ==
    { Absent, PyNone, PyInt(5), PyStr(<<>>),
      PyStr(<<"n", "o", "t", "-", "a", "-", "l", "i", "n", "k">>),
      PyStr(Link(Txt_maps, At_16, NoPart).text),
      PyStr(Link(<<>>, At_999, NoPart).text),
      PyStr(Link(<<>>, At_0, Query_1_2).text),
      PyStr(Link(Txt_maps, NoPart, Query_1_2).text) }

Txt_PNG == <<"P", "N", "G">>

Txt_PDF == <<"P", "D", "F">>

\* The values of zoom.
ZoomValues ==
    { Absent, PyNone, PyInt(0), PyInt(20), PyInt(999), PyInt(-1),
      PyStr(<<"a", "b", "c">>), PyStr(<<" ", "1", "2">>) }

\* The values of output.
OutputValues ==
    { Absent, PyNone, PyStr(<<>>), PyStr(Txt_PNG), PyStr(<<"p", "n", "g">>),
      PyStr(<<" ", "P", "d", "f", " ">>), PyStr(<<"J", "P", "G">>),
      PyStr(<<" ", " ">>), PyInt(5) }

Payloads ==
    [maps_link : SomeLinkValues, zoom : ZoomValues, output : OutputValues]

\* Requests that vary the link: no zoom of their own, a PNG asked for.
LinkPayloads ==
    [maps_link : {PyStr(l.text) : l \in AllLinks}, zoom : {Absent, PyNone},
     output : {PyStr(Txt_PNG)}]

----------------------------------------------------------------------------
(* Poster rendering and delivery *)

\* render_poster_png: Image.open raises on bytes that are no image.
render_poster_png(map_bytes) ==
    IF map_bytes = "png" THEN [exc |-> "", png |-> "poster"]
    ELSE [exc |-> "UnidentifiedImageError", png |-> ""]

\* png_to_pdf_bytes
png_to_pdf_bytes(png) == "pdf"

\* What the storage client may do: store and sign, fail to store, or store and
\* then fail to sign (where a signed URL is asked for).
GcsOutcomes == {"ok", "upload_error", "sign_error"}

\* A slip for upload_to_gcs: OUTPUT_BUCKET is not checked before the upload.
upload_to_gcs_unchecked(e, data, content_type, name, gcs) ==
    LET obj == [name |-> object_name_of(e, name), content_type |-> content_type,
                data |-> data]
    IN  IF gcs = "upload_error"
        THEN [exc |-> "GoogleCloudError", put |-> <<>>, url |-> NoUrl]
        ELSE IF gcs = "sign_error" /\ getenv_bool(e.SIGN_URLS, FALSE)
        THEN [exc |-> "GoogleCloudError", put |-> <<obj>>, url |-> NoUrl]
        ELSE [exc |-> "", put |-> <<obj>>, url |-> url_of(e, obj.name)]

\* upload_to_gcs: [exc, put, url], put the objects written to the bucket.
upload_to_gcs(e, data, content_type, name, gcs) ==
    LET obj == [name |-> object_name_of(e, name), content_type |-> content_type,
                data |-> data]
    IN  IF ~Truthy(e.OUTPUT_BUCKET)
        THEN [exc |-> "RuntimeError", put |-> <<>>, url |-> NoUrl]
        ELSE IF gcs = "upload_error"
        THEN [exc |-> "GoogleCloudError", put |-> <<>>, url |-> NoUrl]
        ELSE IF gcs = "sign_error" /\ getenv_bool(e.SIGN_URLS, FALSE)
        THEN [exc |-> "GoogleCloudError", put |-> <<obj>>, url |-> NoUrl]
        ELSE [exc |-> "", put |-> <<obj>>, url |-> url_of(e, obj.name)]

\* A slip for deliver: the PDF goes up with the content type of the PNG.
deliver_pdf_as_png(e, out, poster, base, gcs) ==
    LET png == upload_to_gcs(e, poster, "image/png", base \o Txt_png, gcs)
        pdf == upload_to_gcs(e, png_to_pdf_bytes(poster), "image/png",
                             base \o Txt_pdf, gcs)
    IN  IF out = Txt_PNG
        THEN [exc |-> png.exc, put |-> png.put,
              response |-> IF png.exc = "" THEN OkResponse(Txt_PNG, png.url)
                           ELSE InternalServerError]
        ELSE IF out = Txt_PDF
        THEN [exc |-> pdf.exc, put |-> pdf.put,
              response |-> IF pdf.exc = "" THEN OkResponse(Txt_PDF, pdf.url)
                           ELSE InternalServerError]
        ELSE [exc |-> "", put |-> <<>>, response |-> ErrorResponse(MsgOutput)]

\* The end of render(), from filename_base on: [exc, put, response].
deliver(e, out, poster, base, gcs) ==
    LET png == upload_to_gcs(e, poster, "image/png", base \o Txt_png, gcs)
        pdf == upload_to_gcs(e, png_to_pdf_bytes(poster), "application/pdf",
                             base \o Txt_pdf, gcs)
    IN  IF out = Txt_PNG
        THEN [exc |-> png.exc, put |-> png.put,
              response |-> IF png.exc = "" THEN OkResponse(Txt_PNG, png.url)
                           ELSE InternalServerError]
        ELSE IF out = Txt_PDF
        THEN [exc |-> pdf.exc, put |-> pdf.put,
              response |-> IF pdf.exc = "" THEN OkResponse(Txt_PDF, pdf.url)
                           ELSE InternalServerError]
        ELSE [exc |-> "", put |-> <<>>, response |-> ErrorResponse(MsgOutput)]

RECURSIVE stored_all(_, _)
\* The bucket after the uploads of put, in order.
stored_all(objects, put) ==
    IF put = <<>> THEN objects ELSE stored_all(stored(objects, Head(put)), Tail(put))

----------------------------------------------------------------------------
(* The handler of POST /render *)

\* (payload.get("output") or "PNG")
output_or_png(p) == PyOr(Get(p.output, PyNone), PyStr(Txt_PNG))

\* A slip for normalise_output: upper() without strip().
normalise_output_unstripped(s) == Upper(s)

\* (...).strip().upper()
normalise_output(s) == Upper(Strip(s))

\* An exception leaves render(): the request ends as a 500.
Fail(e) ==
    /\ pc' = "done"
    /\ raised' = e
    /\ response' = InternalServerError

TypeOK ==
    /\ env \in Envs
    /\ pc \in {"idle", "parse", "zoom", "fetch", "poster", "deliver", "done"}
    /\ nreq \in 0..MaxRequests
    /\ zoom.t \in {"none", "int"}
    /\ zoom_from_link.t \in {"none", "int"}
    /\ Len(fetches) \in 0..1
    /\ response.status \in {0, 200, 400, 500}

InitWith(E) ==
    /\ env \in E
    /\ pc = "idle"
    /\ payload = [maps_link |-> Absent, zoom |-> Absent, output |-> Absent]
    /\ output = <<>>
    /\ lat = 0
    /\ lng = 0
    /\ zoom_from_link = PyNone
    /\ zoom = PyNone
    /\ map_png = ""
    /\ poster_png = ""
    /\ fetches = <<>>
    /\ upstream = NoAnswer
    /\ uploads = <<>>
    /\ storage = {}
    /\ storage0 = {}
    /\ raised = ""
    /\ response = NoResponse
    /\ nreq = 0

Init == InitWith(Envs)

\* A request arrives: the payload is read and output is normalised.
Receive(P) ==
    /\ pc = "idle"
    /\ nreq < MaxRequests
    /\ \E p \in P :
         /\ payload' = p
         /\ IF output_or_png(p).t = "str"
            THEN /\ output' = normalise_output(output_or_png(p).s)
                 /\ pc' = "parse"
                 /\ raised' = ""
                 /\ response' = NoResponse
            ELSE /\ output' = <<>>
                 /\ Fail("AttributeError")
    /\ nreq' = nreq + 1
    /\ UNCHANGED <<env, lat, lng, zoom_from_link, zoom, map_png, poster_png,
                   fetches, upstream, uploads, storage, storage0>>

\* lat, lng, zoom_from_link = parse_google_maps_link(maps_link)
ParseLink ==
    /\ pc = "parse"
    /\ LET r == parse_google_maps_link(Get(payload.maps_link, PyStr(<<>>)))
       IN  IF r.exc = ""
           THEN /\ lat' = r.lat
                /\ lng' = r.lng
                /\ zoom_from_link' = r.zoom
                /\ pc' = "zoom"
                /\ UNCHANGED <<raised, response>>
           ELSE /\ Fail(r.exc)
                /\ UNCHANGED <<lat, lng, zoom_from_link>>
    /\ UNCHANGED <<env, payload, output, zoom, map_png, poster_png, fetches,
                   upstream, uploads, storage, storage0, nreq>>

\* zoom = int(zoom_in) if zoom_in is not None else ...
ResolveZoom ==
    /\ pc = "zoom"
    /\ LET r == resolve_zoom(Get(payload.zoom, PyNone), zoom_from_link)
       IN  IF r.exc = ""
           THEN /\ zoom' = PyInt(r.n)
                /\ pc' = "fetch"
                /\ UNCHANGED <<raised, response>>
           ELSE /\ Fail(r.exc)
                /\ UNCHANGED zoom
    /\ UNCHANGED <<env, payload, output, lat, lng, zoom_from_link, map_png,
                   poster_png, fetches, upstream, uploads, storage, storage0, nreq>>

\* A slip for Fetch: after a failed call the handler calls again.
FetchRetrying ==
    /\ pc = "fetch"
    /\ IF get_gmaps_key(env) = <<>>
       THEN /\ Fail("RuntimeError")
            /\ UNCHANGED <<fetches, upstream, map_png>>
       ELSE \E ans \in ProviderAnswers :
              /\ fetches' = Append(fetches,
                                   fetch_params(lat, lng, zoom.n, get_gmaps_key(env)))
              /\ upstream' = ans
              /\ IF fetch_exception(ans) = ""
                 THEN /\ map_png' = ans.content
                      /\ pc' = "poster"
                 ELSE /\ pc' = "fetch"
                      /\ UNCHANGED map_png
              /\ UNCHANGED <<raised, response>>
    /\ UNCHANGED <<env, payload, output, lat, lng, zoom_from_link, zoom,
                   poster_png, uploads, storage, storage0, nreq>>

\* map_png = fetch_static_map(lat, lng, zoom, ...): one requests.get, then
\* raise_for_status.
Fetch ==
    /\ pc = "fetch"
    /\ IF get_gmaps_key(env) = <<>>
       THEN /\ Fail("RuntimeError")
            /\ UNCHANGED <<fetches, upstream, map_png>>
       ELSE \E ans \in ProviderAnswers :
              /\ fetches' = Append(fetches,
                                   fetch_params(lat, lng, zoom.n, get_gmaps_key(env)))
              /\ upstream' = ans
              /\ IF fetch_exception(ans) = ""
                 THEN /\ map_png' = ans.content
                      /\ pc' = "poster"
                      /\ UNCHANGED <<raised, response>>
                 ELSE /\ Fail(fetch_exception(ans))
                      /\ UNCHANGED map_png
    /\ UNCHANGED <<env, payload, output, lat, lng, zoom_from_link, zoom,
                   poster_png, uploads, storage, storage0, nreq>>

\* poster_png = render_poster_png(map_png, ...)
RenderPoster ==
    /\ pc = "poster"
    /\ LET r == render_poster_png(map_png)
       IN  IF r.exc = ""
           THEN /\ poster_png' = r.png
                /\ pc' = "deliver"
                /\ UNCHANGED <<raised, response>>
           ELSE /\ Fail(r.exc)
                /\ UNCHANGED poster_png
    /\ UNCHANGED <<env, payload, output, lat, lng, zoom_from_link, zoom, map_png,
                   fetches, upstream, uploads, storage, storage0, nreq>>

\* The file name is drawn, the poster is uploaded as PNG or PDF, and the
\* response is made; any other output is answered with a 400.
Deliver ==
    /\ pc = "deliver"
    /\ \E base \in Uuids, gcs \in GcsOutcomes :
         LET r == deliver(env, output, poster_png, base, gcs)
         IN  /\ uploads' = uploads \o r.put
             /\ storage' = stored_all(storage, r.put)
             /\ raised' = r.exc
             /\ response' = r.response
    /\ pc' = "done"
    /\ UNCHANGED <<env, payload, output, lat, lng, zoom_from_link, zoom, map_png,
                   poster_png, fetches, upstream, storage0, nreq>>

\* The response is sent and render() is left: its locals are gone, and the
\* worker waits for the next request.
Respond ==
    /\ pc = "done"
    /\ pc' = "idle"
    /\ payload' = [maps_link |-> Absent, zoom |-> Absent, output |-> Absent]
    /\ output' = <<>>
    /\ lat' = 0
    /\ lng' = 0
    /\ zoom_from_link' = PyNone
    /\ zoom' = PyNone
    /\ map_png' = ""
    /\ poster_png' = ""
    /\ fetches' = <<>>
    /\ upstream' = NoAnswer
    /\ uploads' = <<>>
    /\ storage0' = storage
    /\ raised' = ""
    /\ response' = NoResponse
    /\ UNCHANGED <<env, storage, nreq>>

Next ==
    \/ Receive(Payloads)
    \/ ParseLink
    \/ ResolveZoom
    \/ Fetch
    \/ RenderPoster
    \/ Deliver
    \/ Respond

Spec == Init /\ [][Next]_vars

\* The handler run on every link of AllLinks, in the complete deployment.
NextLinks ==
    \/ Receive(LinkPayloads)
    \/ ParseLink
    \/ ResolveZoom
    \/ Fetch
    \/ RenderPoster
    \/ Deliver
    \/ Respond

SpecLinks == InitWith({BaseEnv}) /\ [][NextLinks]_vars

----------------------------------------------------------------------------
(* What the properties below read *)

\* maps_link and zoom_in as render() reads them.
MapsLink == Get(payload.maps_link, PyStr(<<>>))

ZoomIn == Get(payload.zoom, PyNone)

\* The handler is past the call of parse_google_maps_link.
PastParse == pc \in {"zoom", "fetch", "poster", "deliver", "done"}

\* x is the float of the literal d.
IsFloatOf(x, d) == x * d.den = d.num * Scale

EndsWith(s, suffix) ==
    /\ Len(s) >= Len(suffix)
    /\ SubSeq(s, Len(s) - Len(suffix) + 1, Len(s)) = suffix

\* The link of the request is one of AllLinks written from the parts l.
IsLink(l) == MapsLink = PyStr(l.text)

----------------------------------------------------------------------------
(* C1: a request whose maps_link is missing, empty, no string, or matched
   by neither pattern is answered with a 400 and a body {ok: false, error:
   <message>}; it never ends as an unhandled exception or a 500. *)
C1_MalformedLinkIs400 ==
    (/\ pc = "done"
     /\ \/ MapsLink.t # "str"
        \/ MapsLink.s = <<>>
        \/ ~SearchPrimary(MapsLink.s).ok /\ ~SearchFallback(MapsLink.s).ok)
    => /\ response.status = 400
       /\ response.json
       /\ ~response.ok
       /\ response.error \in {MsgRequired, MsgFormat}
       /\ raised = ""

(* C2: the zoom of every call to the map provider lies in 0..20, whatever
   zoom the request or the link gave. *)
C2_FetchZoomInRange ==
    \A i \in 1..Len(fetches) : fetches[i].zoom \in 0..20

(* C3: the zoom the provider is asked for is the zoom of the request when
   the request has one (0 included), else the zoom of the link when the
   link has one, else 16. *)
C3_ZoomPrecedence ==
    fetches # <<>> =>
        fetches[1].zoom =
            CASE ZoomIn.t = "int" -> ZoomIn.n
              [] ZoomIn = PyStr(<<" ", "1", "2">>) -> 12
              [] ZoomIn = PyNone /\ zoom_from_link # PyNone -> zoom_from_link.n
              [] OTHER -> 16

\* An explicit zoom of 0 was used although the link carries a zoom of 16.
C3_Witness ==
    /\ fetches # <<>>
    /\ payload.zoom = PyInt(0)
    /\ zoom_from_link = PyInt(16)
    /\ fetches[1].zoom = 0

(* C4: for a link with a segment /@<lat>,<lng>,<zoom>z the parser returns
   the lat and lng the literals spell and the zoom cut to its integer part
   (16z and 16.75z both give 16); it does not raise. *)
C4_AtLinkParsed ==
    PastParse =>
        \A l \in AtLinks :
            IsLink(l) => /\ IsFloatOf(lat, l.at.lat)
                         /\ IsFloatOf(lng, l.at.lng)
                         /\ zoom_from_link = PyInt(l.at.zoom.int)

\* /@-1, -0.5, 16.75z was parsed to (-1.0, -0.5, 16).
C4_Witness ==
    /\ pc = "zoom"
    /\ IsLink(Link(Txt_maps, AtPart(Lat_m1, Lng_m0_5, Zoom_16_75, <<",", " ">>), NoPart))
    /\ lat = 0 - Scale
    /\ 2 * lng = 0 - Scale
    /\ zoom_from_link = PyInt(16)

(* C5: a link with both forms is resolved by its /@ segment; a link with
   only a q= or ll= parameter gives the lat,lng of that parameter and no
   zoom, and a request without a zoom of its own then fetches with zoom
   16. *)
C5_FallbackOnlyAfterPrimary ==
    PastParse =>
        \A l \in AllLinks :
            IsLink(l) => /\ (l.at.good /\ l.query.good) =>
                              /\ IsFloatOf(lat, l.at.lat)
                              /\ IsFloatOf(lng, l.at.lng)
                              /\ zoom_from_link = PyInt(l.at.zoom.int)
                         /\ (~l.at.good /\ l.query.good) =>
                              /\ IsFloatOf(lat, l.query.lat)
                              /\ IsFloatOf(lng, l.query.lng)
                              /\ zoom_from_link = PyNone
                              /\ (ZoomIn = PyNone /\ fetches # <<>>) =>
                                     /\ fetches[1].zoom = 16
                                     /\ fetches[1].center = <<lat, lng>>

\* maps?q=1.0,2.0 without a zoom in the request was fetched at (1.0, 2.0)
\* with zoom 16.
C5_Witness ==
    /\ IsLink(Link(Txt_maps, NoPart, Query_1_2))
    /\ ZoomIn = PyNone
    /\ fetches # <<>>
    /\ fetches[1].center = <<Scale, 2 * Scale>>
    /\ fetches[1].zoom = 16

(* C6, as claimed: a successful response is a 200 whose body holds ok: true,
   the generated file name and the storage URL; the file name ends in .png
   for PNG and .pdf for PDF and is the name the object was uploaded under,
   with the matching content type. *)
C6_SuccessBodyHasFile ==
    (pc = "done" /\ response.status = 200)
    => /\ response.ok
       /\ {"ok", "file", "url"} \subseteq response.keys
       /\ Len(uploads) = 1
       /\ \E base \in Uuids :
            \/ output = Txt_PNG /\ uploads[1].name = base \o Txt_png
                                /\ uploads[1].content_type = "image/png"
            \/ output = Txt_PDF /\ uploads[1].name = base \o Txt_pdf
                                /\ uploads[1].content_type = "application/pdf"

(* C6, amended: a successful response is a 200 whose JSON body holds exactly
   ok: true, output (PNG or PDF, as normalised) and url; there is no field
   for the file name.  One object was uploaded, it is in the bucket, its
   name is <uuid>.png with content type image/png for PNG and <uuid>.pdf
   with application/pdf for PDF, after the folder GCS_PREFIX names when it
   is set, and the URL names the bucket and that object. *)
C6_SuccessBody ==
    (pc = "done" /\ response.status = 200)
    => /\ response.json
       /\ response.ok
       /\ response.keys = {"ok", "output", "url"}
       /\ response.output = output
       /\ Len(uploads) = 1
       /\ uploads[1] \in storage
       /\ response.url.kind \in {"gs", "signed"}
       /\ response.url.bucket = Txt_bkt
       /\ response.url.name = uploads[1].name
       /\ \E base \in Uuids :
            LET folder == IF env.GCS_PREFIX = PyNone THEN <<>>
                          ELSE <<"p", "o", "s", "t", "/">>
            IN  \/ /\ output = Txt_PNG
                   /\ uploads[1].name = folder \o base \o Txt_png
                   /\ uploads[1].content_type = "image/png"
                   /\ uploads[1].data = "poster"
                \/ /\ output = Txt_PDF
                   /\ uploads[1].name = folder \o base \o Txt_pdf
                   /\ uploads[1].content_type = "application/pdf"
                   /\ uploads[1].data = "pdf"

\* A PDF was delivered into the folder of GCS_PREFIX.
C6_Witness ==
    /\ pc = "done"
    /\ response.status = 200
    /\ payload.output = PyStr(<<" ", "P", "d", "f", " ">>)
    /\ env.GCS_PREFIX # PyNone
    /\ EndsWith(response.url.name, Txt_pdf)

(* C7: when the provider answers with a non-success status the request ends
   with a 400 and a body {ok: false, error: <message>}. *)
C7_ProviderErrorIs400 ==
    (pc = "done" /\ upstream.status \in 400..599)
    => /\ response.status = 400
       /\ response.json
       /\ ~response.ok
       /\ response.error # ""

(* C8: a request calls the map provider at most once; after a failed or
   timed-out call it ends with an error, that one call made. *)
C8_SingleFetch ==
    /\ Len(fetches) <= 1
    /\ (upstream # NoAnswer /\ fetch_exception(upstream) # "")
       => /\ pc = "done"
          /\ Len(fetches) = 1
          /\ response.status \in 400..599

\* The one call timed out and the request ended.
C8_Witness ==
    /\ pc = "done"
    /\ upstream.status = 0
    /\ Len(fetches) = 1
    /\ raised = "Timeout"

(* C9: a request uploads at most one object, and only after the link was
   parsed, the map fetched and the poster rendered; without an upload, and
   so when one of those steps fails or OUTPUT_BUCKET is unset, the bucket
   is as it was when the request arrived. *)
C9_UploadOnlyAfterSuccess ==
    /\ Len(uploads) <= 1
    /\ uploads # <<>>
       => /\ parse_google_maps_link(MapsLink).exc = ""
          /\ zoom # PyNone
          /\ Len(fetches) = 1
          /\ upstream.status = 200
          /\ poster_png = "poster"
          /\ Truthy(env.OUTPUT_BUCKET)
    /\ uploads = <<>> => storage = storage0
    /\ (pc = "done" /\ raised \in {"ValueError", "RuntimeError", "HTTPError",
                                   "Timeout", "UnidentifiedImageError"})
       => storage = storage0

\* The second request uploaded a poster into a bucket that held one.
C9_Witness ==
    /\ pc = "done"
    /\ Len(uploads) = 1
    /\ storage0 # {}
    /\ storage # storage0

(* C10, as claimed: with a parseable link and a string output, the output is
   trimmed and upper-cased, an absent, null or empty one meaning PNG; when
   the result is neither PNG nor PDF the response is 400 with the error
   "Invalid output. Use PNG or PDF." and nothing is uploaded. *)
C10_InvalidOutputIs400 ==
    (/\ pc = "done"
     /\ parse_google_maps_link(MapsLink).exc = ""
     /\ output_or_png(payload).t = "str"
     /\ output \notin {Txt_PNG, Txt_PDF})
    => /\ response = ErrorResponse(MsgOutput)
       /\ uploads = <<>>

\* What strip() and upper() make of the outputs drawn.
ExpectedOutput(v) ==
    CASE v \in {Absent, PyNone, PyStr(<<>>), PyStr(Txt_PNG), PyStr(<<"p", "n", "g">>)} -> Txt_PNG
      [] v = PyStr(<<" ", "P", "d", "f", " ">>) -> Txt_PDF
      [] v = PyStr(<<"J", "P", "G">>) -> <<"J", "P", "G">>
      [] OTHER -> <<>>

(* C10, amended: a string output is trimmed and upper-cased, an absent, null
   or empty one meaning PNG.  The output is examined only once the zoom is
   resolved, the map fetched and the poster rendered: when they succeed and
   the normalised value is neither PNG nor PDF, the response is 400 with the
   error "Invalid output. Use PNG or PDF."; when one of them fails the
   request ends as a 500 whatever the output.  In both cases nothing is
   uploaded. *)
C10_InvalidOutputAfterRender ==
    (pc # "idle" /\ output_or_png(payload).t = "str")
    => /\ output = ExpectedOutput(payload.output)
       /\ output \notin {Txt_PNG, Txt_PDF}
          => /\ uploads = <<>>
             /\ storage = storage0
             /\ (pc = "done" /\ poster_png = "poster")
                => response = ErrorResponse(MsgOutput)
             /\ (pc = "done" /\ poster_png # "poster")
                => response = InternalServerError

\* A request for a poster as "  " was answered with the 400.
C10_Witness ==
    /\ pc = "done"
    /\ payload.output = PyStr(<<" ", " ">>)
    /\ poster_png = "poster"
    /\ response.status = 400
    /\ response.error = MsgOutput

====
